---- MODULE Spec2Model ----
(***************************************************************************)
(* Complaint-Tracking-System: the localStorage persistence layer           *)
(* (src/src/utils/storage.ts) and the two duplicated useComplaintData      *)
(* hooks (src/unnamed/part_000), run by one hook instance per browser tab. *)
(*                                                                         *)
(* React is modelled by its documented semantics: a component's callbacks  *)
(* see the state of the last render (data[t]); setData(v) and              *)
(* setData(fn) queue an update (queue[t]); the next render applies the     *)
(* queue in order, calling each updater function with the state computed   *)
(* so far.  React may also compute the first queued update eagerly.        *)
(***************************************************************************)
EXTENDS Integers, Sequences, FiniteSets, TLC

VARIABLES hook,      \* which of the two duplicated hook implementations is built
          faulty,    \* whether this browser's localStorage can fail
          clock,     \* Date.now()
          store,     \* the localStorage item under STORAGE_KEY
          mounted,   \* mounted[t]: tab t has a mounted hook instance
          data,      \* data[t]: the hook's React state as of the last render
          queue,     \* queue[t]: state updates queued since the last render
          evt,       \* evt[t]: storage events are waiting for tab t
          ops,       \* number of hook calls made so far
          last,      \* the most recent hook call, its tab and its result
          lastCall,  \* the most recent direct call of the storage layer
          ideal,     \* the complaints array an operation-by-operation log would hold
          attachments \* the files attached on the submission form

vars == <<hook, faulty, clock, store, mounted, data, queue, evt, ops,
          last, lastCall, ideal, attachments>>

----------------------------------------------------------------------------
(* Bounds *)

Tabs == {"tab1", "tab2"}
MaxSuffix == 1          \* complaint id suffixes are drawn from 0..MaxSuffix
MaxOps == 2             \* hook calls per behaviour
MaxQueue == 2           \* queued state updates per tab
MaxClock == 1           \* Date.now() ranges over 0..MaxClock
MaxSel == 2             \* length of a bulk selection

Suffixes == 0 .. MaxSuffix
UpdateStatuses == {"In Review", "Resolved"}
UserTitle == "user complaint"

----------------------------------------------------------------------------
(* Types (src/src/types/index.ts).  An optional property is represented by *)
(* the value a property read yields, so an absent property and a property  *)
(* holding undefined are both Undefined.                                   *)

Undefined == "undefined"
Statuses == {"New", "In Review", "Resolved", "Rejected"}
STORAGE_VERSION == "1.0.0"

HistoryEntry(action, prev, new) ==
    [action |-> action, previousStatus |-> prev, newStatus |-> new]

Comment(by, text, isPrivate) == [by |-> by, text |-> text, isPrivate |-> isPrivate]

NoComplaint ==
    [id |-> -1, title |-> Undefined, status |-> Undefined,
     history |-> <<>>, comments |-> <<>>]

NullData ==
    [complaints |-> <<>>, users |-> <<>>, settings |-> [version |-> Undefined],
     version |-> "null", lastModified |-> 0]

SampleUsers == <<"admin_1", "admin_2">>

GenerateSampleData(i1, i2, now) ==
    [complaints |->
        << [id |-> i1, title |-> "Blocked storm drain on Main Street",
            status |-> "In Review",
            history |-> << HistoryEntry("Complaint submitted", Undefined, "New"),
                           HistoryEntry("Status updated", "New", "In Review") >>,
            comments |-> << Comment("Sarah Johnson", "received", FALSE) >>],
           [id |-> i2, title |-> "Streetlight not working",
            status |-> "New",
            history |-> << HistoryEntry("Complaint submitted", Undefined, "New") >>,
            comments |-> <<>>] >>,
     users |-> SampleUsers,
     settings |-> [version |-> STORAGE_VERSION],
     version |-> STORAGE_VERSION,
     lastModified |-> now]

----------------------------------------------------------------------------
(* localStorage.  The item under STORAGE_KEY is absent, a string that      *)
(* JSON.parse rejects, or the JSON text of an AppData value.  env is the   *)
(* condition of localStorage during one synchronous handler:               *)
(*   "ok"          every access works                                      *)
(*   "unavailable" setItem of the test key throws                          *)
(*   "quota"       the test key fits but setItem of the data throws        *)

NoItem == [kind |-> "absent", val |-> NullData]
Garbage == [kind |-> "unparseable", val |-> NullData]
Stringify(d) == [kind |-> "json", val |-> d]

OldData == [NullData EXCEPT !.version = "0.9.0"]
UnversionedData == [NullData EXCEPT !.version = Undefined]

Envs == IF faulty THEN {"ok", "unavailable", "quota"} ELSE {"ok"}

IsLocalStorageAvailable(env) == env # "unavailable"

\* A saveToStorage that stores the data as given, without stamping it.
SaveToStorageUnstamped(st, d, env, now) ==
    IF ~IsLocalStorageAvailable(env) THEN [ok |-> FALSE, store |-> st]
    ELSE IF env = "quota" THEN [ok |-> FALSE, store |-> st]
    ELSE [ok |-> TRUE, store |-> Stringify(d)]

SaveToStorage(st, d, env, now) ==
    IF ~IsLocalStorageAvailable(env) THEN [ok |-> FALSE, store |-> st]
    ELSE IF env = "quota" THEN [ok |-> FALSE, store |-> st]
    ELSE [ok |-> TRUE, store |-> Stringify([d EXCEPT !.lastModified = now])]

\* A loadFromStorage that accepts stored data of any version.
LoadFromStorageAnyVersion(st, env, i1, i2, now) ==
    LET sampleData == GenerateSampleData(i1, i2, now)
        regenerated == [data |-> sampleData,
                        store |-> SaveToStorage(st, sampleData, env, now).store]
    IN  IF ~IsLocalStorageAvailable(env) THEN [data |-> sampleData, store |-> st]
        ELSE IF st.kind = "absent" THEN regenerated
        ELSE IF st.kind = "unparseable" THEN regenerated
        ELSE [data |-> st.val, store |-> st]

LoadFromStorage(st, env, i1, i2, now) ==
    LET sampleData == GenerateSampleData(i1, i2, now)
        regenerated == [data |-> sampleData,
                        store |-> SaveToStorage(st, sampleData, env, now).store]
    IN  IF ~IsLocalStorageAvailable(env) THEN [data |-> sampleData, store |-> st]
        ELSE IF st.kind = "absent" THEN regenerated
        ELSE IF st.kind = "unparseable" THEN regenerated
        ELSE IF st.val.version = Undefined \/ st.val.version # STORAGE_VERSION
             THEN regenerated
        ELSE [data |-> st.val, store |-> st]

\* A JSON text, as JSON.parse reads it: text that does not parse, the text of
\* null, of a number, or of an object whose complaints and users properties
\* are missing, hold something that is no array, or hold an array.
JsonText(d) ==
    [kind |-> "object",
     val |-> [complaintsKind |-> "array", usersKind |-> "array",
              complaints |-> d.complaints, users |-> d.users,
              settings |-> d.settings, version |-> d.version,
              lastModified |-> d.lastModified]]

\* An exportData that always writes the sample data to the file.
ExportDataSample(st, env, i1, i2, now) ==
    [text |-> JsonText(GenerateSampleData(i1, i2, now)),
     store |-> LoadFromStorage(st, env, i1, i2, now).store]

ExportData(st, env, i1, i2, now) ==
    LET l == LoadFromStorage(st, env, i1, i2, now)
    IN  [text |-> JsonText(l.data), store |-> l.store]

\* An importData that does not look at the users property.
ImportDataUsersUnchecked(st, text, env, now) ==
    IF text.kind # "object" THEN [ok |-> FALSE, store |-> st]
    ELSE IF text.val.complaintsKind # "array" THEN [ok |-> FALSE, store |-> st]
    ELSE SaveToStorage(st,
            [complaints |-> text.val.complaints,
             users |-> text.val.users,
             settings |-> [text.val.settings EXCEPT !.version = STORAGE_VERSION],
             version |-> STORAGE_VERSION,
             lastModified |-> text.val.lastModified], env, now)

ImportData(st, text, env, now) ==
    IF text.kind = "unparseable" THEN [ok |-> FALSE, store |-> st]
    ELSE IF text.kind = "null" THEN [ok |-> FALSE, store |-> st]
    ELSE IF text.kind = "number" THEN [ok |-> FALSE, store |-> st]
    ELSE IF text.val.complaintsKind # "array" THEN [ok |-> FALSE, store |-> st]
    ELSE IF text.val.usersKind # "array" THEN [ok |-> FALSE, store |-> st]
    ELSE SaveToStorage(st,
            [complaints |-> text.val.complaints,
             users |-> text.val.users,
             settings |-> [text.val.settings EXCEPT !.version = STORAGE_VERSION],
             version |-> STORAGE_VERSION,
             lastModified |-> text.val.lastModified], env, now)

\* removeItem does not throw; without localStorage nothing is removed.
ClearStorage(st, env) ==
    [ok |-> TRUE, store |-> IF IsLocalStorageAvailable(env) THEN NoItem ELSE st]

\* The ids generateSampleData draws matter only when loadFromStorage uses it.
SampleIds(st, env) ==
    IF LoadFromStorage(st, env, 0, 0, 0).data = GenerateSampleData(0, 0, 0)
    THEN Suffixes \X Suffixes ELSE {<<0, 0>>}

----------------------------------------------------------------------------
(* Records of the most recent storage call and hook call.  They observe    *)
(* the program; no action reads them.                                      *)

NoCall ==
    [fn |-> "none", before |-> NoItem, given |-> NullData, env |-> "ok",
     now |-> 0, ok |-> FALSE, ret |-> NullData]

NoOp ==
    [tab |-> "none", op |-> "none", id |-> -1, status |-> Undefined, sel |-> <<>>,
     ok |-> FALSE, count |-> 0, found |-> NoComplaint, pre |-> FALSE, held |-> <<>>,
     env |-> "ok"]

\* The running state of one synchronous handler: the storage item, the tab's
\* update queue, and the handler's results so far.
Ctx(t) ==
    [store |-> store, queue |-> queue[t], ideal |-> ideal, touched |-> FALSE,
     loaded |-> NullData, ok |-> FALSE, count |-> 0]

CtxSave(ctx, d, env, now) ==
    [ctx EXCEPT !.store = SaveToStorage(ctx.store, d, env, now).store,
                !.touched = TRUE]

CtxLoad(ctx, env, ids, now) ==
    LET r == LoadFromStorage(ctx.store, env, ids[1], ids[2], now)
    IN  [ctx EXCEPT !.store = r.store,
                    !.touched = TRUE,
                    !.loaded = r.data,
                    !.ideal = IF r.store # ctx.store THEN r.data.complaints ELSE @]

----------------------------------------------------------------------------
(* Helpers shared by the two hooks *)

\* Array.prototype.findIndex, 1-based; 0 stands for -1.
FindIndex(cs, id) ==
    IF \E i \in 1 .. Len(cs) : cs[i].id = id
    THEN CHOOSE i \in 1 .. Len(cs) :
            /\ cs[i].id = id
            /\ \A j \in 1 .. (i - 1) : cs[j].id # id
    ELSE 0

\* Array.prototype.find; NoComplaint stands for undefined.
Find(cs, id) == IF FindIndex(cs, id) = 0 THEN NoComplaint ELSE cs[FindIndex(cs, id)]

SetUpdate(v) == [kind |-> "set", val |-> v, c |-> NoComplaint]
FnUpdate(c) == [kind |-> "fn", val |-> NullData, c |-> c]

WithStatus(complaint, s, action) ==
    [complaint EXCEPT !.status = s,
                      !.history = Append(@, HistoryEntry(action, complaint.status, s))]

\* What a log of the successful calls holds: each status change appended once.
IdealUpdate(cs, cid, s, action) ==
    LET idx == FindIndex(cs, cid)
    IN  IF idx = 0 THEN cs ELSE [cs EXCEPT ![idx] = WithStatus(cs[idx], s, action)]

IdealComment(cs, cid, comment) ==
    LET idx == FindIndex(cs, cid)
    IN  IF idx = 0 THEN cs ELSE [cs EXCEPT ![idx].comments = Append(@, comment)]

\* Storage events reach the other tabs that listen (the storage-reading hook
\* registers the listener); every access that passes the availability test
\* sets and removes the test key, and each of those fires the event.
Notify(t, ctx, env, mine) ==
    [u \in Tabs |->
        IF u = t THEN mine
        ELSE IF ctx.touched /\ IsLocalStorageAvailable(env)
                /\ mounted[u] /\ hook = "storage"
             THEN TRUE ELSE evt[u]]

----------------------------------------------------------------------------
(* The storage-reading hook (part_000 lines 18-164) *)

NewComplaintA(id, status) ==
    [id |-> id, title |-> UserTitle, status |-> status,
     history |-> << HistoryEntry("Complaint Submitted", Undefined, "New") >>,
     comments |-> <<>>]

\* One call of updateComplaintStatus: it reads storage, not the React state.
UpdateStatusA(ctx, cid, s, env, ids, now) ==
    LET l == CtxLoad(ctx, env, ids, now)
        idx == FindIndex(l.loaded.complaints, cid)
        currentData == [l.loaded EXCEPT
                          !.complaints[idx] = WithStatus(@, s, "Status Updated")]
        p == CtxSave(l, currentData, env, now)
    IN  IF idx = 0 THEN [l EXCEPT !.ok = FALSE]
        ELSE [p EXCEPT !.queue = Append(@, SetUpdate(currentData)),
                       !.ok = TRUE,
                       !.count = @ + 1,
                       !.ideal = IdealUpdate(@, cid, s, "Status Updated")]

----------------------------------------------------------------------------
(* The state-closure hook (part_000 lines 190-526) *)

NewComplaintB(id, status) ==
    [id |-> id, title |-> UserTitle, status |-> status,
     history |-> << HistoryEntry("Complaint submitted", Undefined, status) >>,
     comments |-> <<>>]

\* An updateComplaintStatus that saves what it holds before it looks for the id.
UpdateStatusBSaveFirst(ctx, d, cid, s, env, now) ==
    [CtxSave(ctx, [d EXCEPT !.lastModified = now], env, now) EXCEPT !.ok = FALSE]

\* One call of updateComplaintStatus: d is the data the callback closed over.
UpdateStatusB(ctx, d, cid, s, env, now) ==
    LET idx == FindIndex(d.complaints, cid)
        updatedData == [d EXCEPT
                          !.complaints[idx] = WithStatus(@, s, "Status updated"),
                          !.lastModified = now]
        p == CtxSave([ctx EXCEPT !.queue = Append(@, SetUpdate(updatedData))],
                     updatedData, env, now)
    IN  IF d = NullData \/ idx = 0 THEN [ctx EXCEPT !.ok = FALSE]
        ELSE [p EXCEPT !.ok = TRUE,
                       !.count = @ + 1,
                       !.ideal = IdealUpdate(@, cid, s, "Status updated")]

UpdateStatus(ctx, d, cid, s, env, ids, now) ==
    IF hook = "storage" THEN UpdateStatusA(ctx, cid, s, env, ids, now)
    ELSE UpdateStatusB(ctx, d, cid, s, env, now)

\* selectedComplaints.forEach(id => updateComplaintStatus(id, newStatus, ...))
RECURSIVE BulkLoop(_, _, _, _, _, _, _)
BulkLoop(ctx, d, sel, s, env, ids, now) ==
    IF sel = <<>> THEN ctx
    ELSE BulkLoop(UpdateStatus(ctx, d, Head(sel), s, env, ids, now),
                  d, Tail(sel), s, env, ids, now)

\* A render applies the queued updates in order; the storage-reading hook's
\* createComplaint updater saves to storage when it is called.
RECURSIVE ApplyQueue(_, _, _, _)
ApplyQueue(ctx, cur, env, now) ==
    IF ctx.queue = <<>> THEN [ctx EXCEPT !.loaded = cur]
    ELSE LET u == Head(ctx.queue)
             rest == [ctx EXCEPT !.queue = Tail(@)]
             updatedData == [cur EXCEPT !.complaints = Append(@, u.c)]
         IN  IF u.kind = "set" THEN ApplyQueue(rest, u.val, env, now)
             ELSE ApplyQueue(CtxSave(rest, updatedData, env, now), updatedData, env, now)

----------------------------------------------------------------------------
(* Actions *)

Init ==
    /\ hook \in {"storage", "closure"}
    /\ faulty \in BOOLEAN
    /\ clock = 0
    /\ store \in {NoItem, Garbage, Stringify(OldData), Stringify(UnversionedData)}
    /\ mounted = [t \in Tabs |-> FALSE]
    /\ data = [t \in Tabs |-> NullData]
    /\ queue = [t \in Tabs |-> <<>>]
    /\ evt = [t \in Tabs |-> FALSE]
    /\ ops = 0
    /\ last = NoOp
    /\ lastCall = NoCall
    /\ ideal = <<>>
    /\ attachments = <<>>

\* What every handler does with the state it ran on.
Commit(t, ctx, env, myEvt) ==
    /\ store' = ctx.store
    /\ queue' = [queue EXCEPT ![t] = ctx.queue]
    /\ ideal' = ctx.ideal
    /\ evt' = Notify(t, ctx, env, myEvt)
    /\ UNCHANGED <<hook, faulty, clock, lastCall, attachments>>

\* useState(() => loadFromStorage()) / useEffect(() => setData(loadFromStorage()), [])
MountInto(t, env, ids, op, pre) ==
    LET l == CtxLoad([Ctx(t) EXCEPT !.queue = <<>>], env, ids, clock)
        c == IF hook = "storage" THEN l
             ELSE [l EXCEPT !.queue = << SetUpdate(l.loaded) >>]
    IN  /\ mounted' = [mounted EXCEPT ![t] = TRUE]
        /\ data' = [data EXCEPT ![t] = IF hook = "storage" THEN l.loaded ELSE NullData]
        /\ last' = [NoOp EXCEPT !.tab = t, !.op = op, !.pre = pre,
                                !.held = data[t].complaints]
        /\ Commit(t, c, env, FALSE)
        /\ UNCHANGED ops

Mount(t) ==
    /\ ~mounted[t]
    /\ \E env \in Envs : \E ids \in SampleIds(store, env) :
          MountInto(t, env, ids, "mount", FALSE)

\* A page refresh: the hook instance is discarded and mounted again.  The
\* render that follows a handler is taken to run before the page can reload.
Refresh(t) ==
    /\ mounted[t]
    /\ queue[t] = <<>>
    /\ \E env \in Envs : \E ids \in SampleIds(store, env) :
          MountInto(t, env, ids, "refresh", last.tab = t /\ data[t] # NullData)

CreateComplaint(t) ==
    /\ mounted[t]
    /\ ops < MaxOps
    /\ Len(queue[t]) < MaxQueue
    /\ \E id \in Suffixes, env \in Envs, eager \in BOOLEAN :
        LET ctx == Ctx(t)
            cA == NewComplaintA(id, "New")
            cB == NewComplaintB(id, "New")
            eagerData == [data[t] EXCEPT !.complaints = Append(@, cA)]
            updatedData == [data[t] EXCEPT !.complaints = Append(@, cB),
                                           !.lastModified = clock]
            a == IF eager
                 THEN [CtxSave(ctx, eagerData, env, clock) EXCEPT
                         !.queue = << SetUpdate(eagerData) >>,
                         !.ideal = Append(@, cA)]
                 ELSE [ctx EXCEPT !.queue = Append(@, FnUpdate(cA)),
                                  !.ideal = Append(@, cA)]
            b == IF data[t] = NullData THEN ctx
                 ELSE [CtxSave([ctx EXCEPT !.queue = Append(@, SetUpdate(updatedData))],
                               updatedData, env, clock) EXCEPT
                         !.ideal = Append(@, cB)]
        IN  /\ eager => (hook = "storage" /\ queue[t] = <<>>)
            /\ (~eager /\ (hook = "storage" \/ data[t] = NullData)) => env = "ok"
            /\ last' = [NoOp EXCEPT !.tab = t, !.op = "create", !.id = id,
                               !.ok = (hook = "storage" \/ data[t] # NullData),
                               !.found = IF hook = "storage" THEN cA
                                         ELSE IF data[t] = NullData THEN NoComplaint
                                         ELSE cB]
            /\ Commit(t, IF hook = "storage" THEN a ELSE b, env, evt[t])
            /\ ops' = ops + 1
            /\ UNCHANGED <<mounted, data>>

UpdateComplaintStatus(t) ==
    /\ mounted[t]
    /\ ops < MaxOps
    /\ Len(queue[t]) < MaxQueue
    /\ \E cid \in Suffixes, s \in UpdateStatuses, env \in Envs :
       \E ids \in SampleIds(store, env) :
        LET r == UpdateStatus(Ctx(t), data[t], cid, s, env, ids, clock)
        IN  /\ last' = [NoOp EXCEPT !.tab = t, !.op = "update", !.id = cid,
                                    !.status = s, !.ok = r.ok, !.env = env]
            /\ Commit(t, r, env, evt[t])
            /\ ops' = ops + 1
            /\ UNCHANGED <<mounted, data>>

\* The selections a dashboard's checkboxes build: distinct ids, in click order.
Selections ==
    { sel \in UNION { [1 .. n -> Suffixes] : n \in 1 .. MaxSel } :
        \A i, j \in 1 .. Len(sel) : sel[i] = sel[j] => i = j }

HandleBulkStatusUpdate(t) ==
    /\ mounted[t]
    /\ ops < MaxOps
    /\ \E sel \in Selections, s \in UpdateStatuses, env \in Envs :
       \E ids \in SampleIds(store, env) :
        LET r == BulkLoop(Ctx(t), data[t], sel, s, env, ids, clock)
        IN  /\ Len(queue[t]) + Len(sel) <= MaxQueue
            /\ last' = [NoOp EXCEPT !.tab = t, !.op = "bulk", !.sel = sel,
                                    !.status = s, !.count = r.count, !.ok = TRUE,
                                    !.pre = (data[t] # NullData)]
            /\ Commit(t, r, env, evt[t])
            /\ ops' = ops + 1
            /\ UNCHANGED <<mounted, data>>

\* addComment exists in the state-closure hook only.
AddComment(t) ==
    /\ hook = "closure"
    /\ mounted[t]
    /\ ops < MaxOps
    /\ Len(queue[t]) < MaxQueue
    /\ \E cid \in Suffixes, isPrivate \in BOOLEAN, env \in Envs :
        LET d == data[t]
            idx == FindIndex(d.complaints, cid)
            newComment == Comment("Admin", "note", isPrivate)
            updatedData == [d EXCEPT !.complaints[idx].comments = Append(@, newComment),
                                     !.lastModified = clock]
            found == d # NullData /\ idx # 0
            ctx == Ctx(t)
            r == IF ~found THEN ctx
                 ELSE [CtxSave([ctx EXCEPT !.queue = Append(@, SetUpdate(updatedData))],
                               updatedData, env, clock) EXCEPT
                         !.ideal = IdealComment(@, cid, newComment)]
        IN  /\ ~found => env = "ok"
            /\ last' = [NoOp EXCEPT !.tab = t, !.op = "comment", !.id = cid,
                                    !.ok = found, !.env = env]
            /\ Commit(t, r, env, evt[t])
            /\ ops' = ops + 1
            /\ UNCHANGED <<mounted, data>>

GetComplaintById(t) ==
    /\ mounted[t]
    /\ ops < MaxOps
    /\ \E cid \in Suffixes, env \in Envs : \E ids \in SampleIds(store, env) :
        LET ctx == Ctx(t)
            l == CtxLoad(ctx, env, ids, clock)
            found == IF hook = "storage" THEN Find(l.loaded.complaints, cid)
                     ELSE Find(data[t].complaints, cid)
        IN  /\ hook = "closure" => env = "ok"
            /\ last' = [NoOp EXCEPT !.tab = t, !.op = "get", !.id = cid,
                                    !.found = found, !.ok = (found # NoComplaint),
                                    !.pre = (\A u \in Tabs : queue[u] = <<>>)]
            /\ Commit(t, IF hook = "storage" THEN l ELSE ctx, env, evt[t])
            /\ ops' = ops + 1
            /\ UNCHANGED <<mounted, data>>

\* The 'storage' listener of the storage-reading hook.
HandleStorageChange(t) ==
    /\ hook = "storage"
    /\ mounted[t]
    /\ evt[t]
    /\ Len(queue[t]) < MaxQueue
    /\ \E env \in Envs : \E ids \in SampleIds(store, env) :
        LET l == CtxLoad(Ctx(t), env, ids, clock)
        IN  /\ last' = [NoOp EXCEPT !.tab = t, !.op = "storage", !.ok = TRUE]
            /\ Commit(t, [l EXCEPT !.queue = Append(@, SetUpdate(l.loaded))], env, FALSE)
            /\ UNCHANGED <<mounted, data, ops>>

\* React re-renders tab t: the queued updates become the state.
Render(t) ==
    /\ mounted[t]
    /\ queue[t] # <<>>
    /\ \E env \in Envs :
        LET r == ApplyQueue(Ctx(t), data[t], env, clock)
        IN  /\ (\A i \in 1 .. Len(queue[t]) : queue[t][i].kind = "set") => env = "ok"
            /\ data' = [data EXCEPT ![t] = r.loaded]
            /\ last' = IF last.tab = t THEN last
                       ELSE [NoOp EXCEPT !.tab = t, !.op = "render"]
            /\ Commit(t, r, env, evt[t])
            /\ UNCHANGED <<mounted, ops>>

\* resetData of the state-closure hook (the Settings page).
ResetData(t) ==
    /\ hook = "closure"
    /\ mounted[t]
    /\ ops < MaxOps
    /\ Len(queue[t]) < MaxQueue
    /\ \E env \in Envs :
        LET ctx == Ctx(t)
            c == ClearStorage(ctx.store, env)
            cleared == [ctx EXCEPT !.store = c.store, !.touched = TRUE]
        IN  \E ids \in SampleIds(cleared.store, env) :
            LET l == CtxLoad(cleared, env, ids, clock)
                r == IF c.ok THEN [l EXCEPT !.queue = Append(@, SetUpdate(l.loaded))]
                     ELSE cleared
            IN  /\ last' = [NoOp EXCEPT !.tab = t, !.op = "reset", !.ok = c.ok]
                /\ Commit(t, r, env, evt[t])
                /\ ops' = ops + 1
                /\ UNCHANGED <<mounted, data>>

\* The program built with the storage-reading hook.
StorageHookNext ==
    \/ \E t \in Tabs : Mount(t)
    \/ \E t \in Tabs : Refresh(t)
    \/ \E t \in Tabs : CreateComplaint(t)
    \/ \E t \in Tabs : UpdateComplaintStatus(t)
    \/ \E t \in Tabs : HandleBulkStatusUpdate(t)
    \/ \E t \in Tabs : GetComplaintById(t)
    \/ \E t \in Tabs : HandleStorageChange(t)
    \/ \E t \in Tabs : Render(t)

\* The program built with the state-closure hook.
ClosureHookNext ==
    \/ \E t \in Tabs : Mount(t)
    \/ \E t \in Tabs : Refresh(t)
    \/ \E t \in Tabs : CreateComplaint(t)
    \/ \E t \in Tabs : UpdateComplaintStatus(t)
    \/ \E t \in Tabs : HandleBulkStatusUpdate(t)
    \/ \E t \in Tabs : AddComment(t)
    \/ \E t \in Tabs : GetComplaintById(t)
    \/ \E t \in Tabs : Render(t)

Next == StorageHookNext \/ ClosureHookNext

Spec == Init /\ [][Next]_vars

\* Each hook in a browser whose localStorage never fails.
StorageHookInit == Init /\ hook = "storage" /\ faulty = FALSE

StorageHookSpec == StorageHookInit /\ [][StorageHookNext]_vars

ClosureHookInit == Init /\ hook = "closure" /\ faulty = FALSE

ClosureHookSpec == ClosureHookInit /\ [][ClosureHookNext]_vars

\* The Settings page over the state-closure hook, in a browser whose
\* localStorage can fail.
ResetNext ==
    \/ \E t \in Tabs : Mount(t)
    \/ \E t \in Tabs : CreateComplaint(t)
    \/ \E t \in Tabs : ResetData(t)
    \/ \E t \in Tabs : Render(t)

ResetInit == Init /\ hook = "closure" /\ faulty = TRUE

ResetSpec == ResetInit /\ [][ResetNext]_vars

\* Status updates and comments in one tab, with localStorage failing at times.
LookupNext ==
    \/ Mount("tab1")
    \/ CreateComplaint("tab1")
    \/ UpdateComplaintStatus("tab1")
    \/ AddComment("tab1")
    \/ Render("tab1")

LookupInit == Init /\ faulty = TRUE

LookupSpec == LookupInit /\ [][LookupNext]_vars

----------------------------------------------------------------------------
(* The storage layer on its own: saveToStorage and loadFromStorage called  *)
(* with any data, in any condition of localStorage, at any time.           *)

SaveInputs ==
    LET samples == { GenerateSampleData(ids[1], ids[2], 0) : ids \in Suffixes \X Suffixes }
    IN  samples \cup
        { [d EXCEPT !.complaints = Append(@, NewComplaintA(id, "New"))] :
            d \in samples, id \in Suffixes }

SaveCall ==
    \E d \in SaveInputs, env \in Envs :
        LET r == SaveToStorage(store, d, env, clock)
        IN  /\ store' = r.store
            /\ lastCall' = [fn |-> "save", before |-> store, given |-> d, env |-> env,
                            now |-> clock, ok |-> r.ok, ret |-> NullData]
            /\ UNCHANGED <<hook, faulty, clock, mounted, data, queue, evt, ops,
                           last, ideal, attachments>>

LoadCall ==
    \E env \in Envs : \E ids \in SampleIds(store, env) :
        LET r == LoadFromStorage(store, env, ids[1], ids[2], clock)
        IN  /\ store' = r.store
            /\ lastCall' = [fn |-> "load", before |-> store, given |-> NullData,
                            env |-> env, now |-> clock, ok |-> TRUE, ret |-> r.data]
            /\ UNCHANGED <<hook, faulty, clock, mounted, data, queue, evt, ops,
                           last, ideal, attachments>>

Tick ==
    /\ clock < MaxClock
    /\ clock' = clock + 1
    /\ UNCHANGED <<hook, faulty, store, mounted, data, queue, evt, ops,
                   last, lastCall, ideal, attachments>>

StorageNext == SaveCall \/ LoadCall \/ Tick

StorageInit == Init /\ hook = "storage" /\ faulty = TRUE

StorageSpec == StorageInit /\ [][StorageNext]_vars

----------------------------------------------------------------------------
(* Backup and restore: exportData and importData called directly.          *)

ArrayKinds == {"missing", "notArray", "array"}

\* The files handed to importData.
ImportInputs ==
    { [kind |-> k, val |-> JsonText(NullData).val] : k \in {"unparseable", "null", "number"} }
    \cup
    { [kind |-> "object",
       val |-> [complaintsKind |-> ck, usersKind |-> uk,
                complaints |-> IF ck = "array" THEN cs ELSE <<>>,
                users |-> IF uk = "array" THEN SampleUsers ELSE <<>>,
                settings |-> [version |-> sv, theme |-> "dark"],
                version |-> v, lastModified |-> 0]] :
        ck \in ArrayKinds, uk \in ArrayKinds,
        cs \in {<<>>, << NewComplaintA(0, "New") >>},
        sv \in {"0.9.0"}, v \in {"0.9.0"} }

ImportCall ==
    \E text \in ImportInputs, env \in Envs :
        LET r == ImportData(store, text, env, clock)
        IN  /\ store' = r.store
            /\ lastCall' = [fn |-> "import", before |-> store, given |-> text,
                            env |-> env, now |-> clock, ok |-> r.ok, ret |-> NullData]
            /\ UNCHANGED <<hook, faulty, clock, mounted, data, queue, evt, ops,
                           last, ideal, attachments>>

\* importData(exportData()), followed by a second exportData().
RoundTrip ==
    \E env1 \in Envs, env2 \in Envs, env3 \in Envs :
    \E ids1 \in SampleIds(store, env1) :
        LET first == ExportData(store, env1, ids1[1], ids1[2], clock)
            r == ImportData(first.store, first.text, env2, clock)
        IN  \E ids2 \in SampleIds(r.store, env3) :
            LET second == ExportData(r.store, env3, ids2[1], ids2[2], clock)
            IN  /\ store' = second.store
                /\ lastCall' = [fn |-> "roundtrip", before |-> store,
                                given |-> first.text, env |-> <<env1, env2, env3>>,
                                now |-> clock, ok |-> r.ok, ret |-> second.text,
                                after |-> r.store]
                /\ UNCHANGED <<hook, faulty, clock, mounted, data, queue, evt, ops,
                               last, ideal, attachments>>

ImportNext == Tick \/ ImportCall

ImportSpec == StorageInit /\ [][ImportNext]_vars

RoundTripNext == Tick \/ RoundTrip

RoundTripSpec == StorageInit /\ [][RoundTripNext]_vars

----------------------------------------------------------------------------
(* getFilteredComplaints, a pure function of the hook's data, the filters  *)
(* and the pagination.  Text is a sequence of characters; a complaint row  *)
(* carries the fields the function reads.                                  *)

MaxRows == 3           \* complaints in a data set
MaxPage == 3           \* pagination.page ranges over 1..MaxPage
MaxLimit == 2          \* pagination.limit ranges over 1..MaxLimit

\* String.prototype.toLowerCase
ToLowerCase(text) ==
    [i \in 1 .. Len(text) |->
        IF text[i] = "A" THEN "a" ELSE IF text[i] = "B" THEN "b" ELSE text[i]]

\* String.prototype.includes
Includes(text, query) ==
    \E i \in 1 .. (Len(text) - Len(query) + 1) :
        SubSeq(text, i, i + Len(query) - 1) = query

\* An includes that finds everything.
ListIncludesAnything(list, x) == TRUE

\* Array.prototype.includes
ListIncludes(list, x) == \E i \in 1 .. Len(list) : list[i] = x

\* The strings the comparator meets, in the order of the < operator.
StringOrder ==
    <<"Critical", "High", "Low", "Medium", "Michael Chen", "Sarah Johnson">>

\* a[sortBy], as the comparator's < and > see it.
Key(c, sortBy) ==
    IF sortBy = Undefined THEN [kind |-> "undefined", n |-> 0]
    ELSE IF sortBy = "createdAt" THEN [kind |-> "number", n |-> c.createdAt]
    ELSE IF c[sortBy] = Undefined THEN [kind |-> "undefined", n |-> 0]
    ELSE [kind |-> "string",
          n |-> CHOOSE i \in 1 .. Len(StringOrder) : StringOrder[i] = c[sortBy]]

\* aVal < bVal: false whenever one side is undefined.
JsLess(aVal, bVal) ==
    aVal.kind # "undefined" /\ bVal.kind # "undefined" /\ aVal.n < bVal.n

\* The comparator handed to Array.prototype.sort.
Compare(a, b, sortBy, sortOrder) ==
    LET aVal == Key(a, sortBy)
        bVal == Key(b, sortBy)
    IN  IF JsLess(aVal, bVal) THEN (IF sortOrder = "asc" THEN -1 ELSE 1)
        ELSE IF JsLess(bVal, aVal) THEN (IF sortOrder = "asc" THEN 1 ELSE -1)
        ELSE 0

\* One step of a stable insertion sort: x goes behind the last element that
\* the comparator does not place after it.
Insert(sorted, x, sortBy, sortOrder) ==
    LET keep == { j \in 1 .. Len(sorted) :
                    \A k \in (j + 1) .. Len(sorted) :
                        Compare(sorted[k], x, sortBy, sortOrder) > 0 }
        stop == { j \in keep : Compare(sorted[j], x, sortBy, sortOrder) <= 0 }
        p == IF stop = {} THEN 0 ELSE CHOOSE j \in stop : \A k \in stop : k <= j
    IN  SubSeq(sorted, 1, p) \o <<x>> \o SubSeq(sorted, p + 1, Len(sorted))

RECURSIVE Sort(_, _, _)
\* Array.prototype.sort (stable) with the comparator above.
Sort(list, sortBy, sortOrder) ==
    IF list = <<>> THEN <<>>
    ELSE Insert(Sort(SubSeq(list, 1, Len(list) - 1), sortBy, sortOrder),
                list[Len(list)], sortBy, sortOrder)

\* A slice that starts one position late.
SliceShifted(list, start, end) ==
    SubSeq(list, start + 2, IF end + 1 < Len(list) THEN end + 1 ELSE Len(list))

\* Array.prototype.slice(start, end) for start, end >= 0.
Slice(list, start, end) ==
    SubSeq(list, start + 1, IF end < Len(list) THEN end ELSE Len(list))

\* getFilteredComplaints of the storage-reading hook.
GetFilteredComplaintsA(d, filters, pagination) ==
    IF d.isNull THEN [complaints |-> <<>>, total |-> 0]
    ELSE
    LET query == ToLowerCase(filters.searchQuery.text)
        Searched(c) == \/ Includes(ToLowerCase(c.id), query)
                       \/ Includes(ToLowerCase(c.title), query)
                       \/ Includes(ToLowerCase(c.reporterName), query)
        InStatus(c) == ListIncludes(filters.status.list, c.status)
        InCategory(c) == ListIncludes(filters.category.list, c.category)
        InPriority(c) == ListIncludes(filters.priority.list, c.priority)
        f0 == d.complaints
        f1 == IF filters.searchQuery.given /\ filters.searchQuery.text # <<>>
              THEN SelectSeq(f0, Searched) ELSE f0
        f2 == IF filters.status.given /\ Len(filters.status.list) # 0
              THEN SelectSeq(f1, InStatus) ELSE f1
        f3 == IF filters.category.given /\ Len(filters.category.list) # 0
              THEN SelectSeq(f2, InCategory) ELSE f2
        f4 == IF filters.priority.given /\ Len(filters.priority.list) # 0
              THEN SelectSeq(f3, InPriority) ELSE f3
        total == Len(f4)
        sorted == IF pagination.given /\ pagination.sortBy # Undefined
                  THEN Sort(f4, pagination.sortBy, pagination.sortOrder) ELSE f4
        start == (pagination.page - 1) * pagination.limit
    IN  IF pagination.given
        THEN [complaints |-> Slice(sorted, start, start + pagination.limit),
              total |-> total]
        ELSE [complaints |-> sorted, total |-> total]

\* A getFilteredComplaints that counts the complaints of the page.
GetFilteredComplaintsPageTotal(d, filters, pagination) ==
    LET r == GetFilteredComplaintsA(d, filters, pagination)
    IN  [r EXCEPT !.total = Len(r.complaints)]

\* getFilteredComplaints of the state-closure hook.
GetFilteredComplaintsB(d, filters, pagination) ==
    IF d.isNull THEN [complaints |-> <<>>, total |-> 0]
    ELSE
    LET query == ToLowerCase(filters.searchQuery.text)
        Searched(c) == \/ Includes(ToLowerCase(c.title), query)
                       \/ Includes(ToLowerCase(c.description), query)
                       \/ Includes(ToLowerCase(c.id), query)
                       \/ Includes(ToLowerCase(c.reporterName), query)
        InStatus(c) == ListIncludes(filters.status.list, c.status)
        InCategory(c) == ListIncludes(filters.category.list, c.category)
        InPriority(c) == ListIncludes(filters.priority.list, c.priority)
        InAssignee(c) == /\ c.assignee # Undefined
                         /\ ListIncludes(filters.assignee.list, c.assignee)
        InRange(c) == /\ c.createdAt >= filters.dateRange.start
                      /\ c.createdAt <= filters.dateRange.end
        f0 == d.complaints
        f1 == IF filters.status.given /\ Len(filters.status.list) > 0
              THEN SelectSeq(f0, InStatus) ELSE f0
        f2 == IF filters.category.given /\ Len(filters.category.list) > 0
              THEN SelectSeq(f1, InCategory) ELSE f1
        f3 == IF filters.priority.given /\ Len(filters.priority.list) > 0
              THEN SelectSeq(f2, InPriority) ELSE f2
        f4 == IF filters.assignee.given /\ Len(filters.assignee.list) > 0
              THEN SelectSeq(f3, InAssignee) ELSE f3
        f5 == IF filters.searchQuery.given /\ filters.searchQuery.text # <<>>
              THEN SelectSeq(f4, Searched) ELSE f4
        f6 == IF filters.dateRange.given THEN SelectSeq(f5, InRange) ELSE f5
        sorted == Sort(f6, pagination.sortBy, pagination.sortOrder)
        start == (pagination.page - 1) * pagination.limit
    IN  IF pagination.given
        THEN [complaints |-> Slice(sorted, start, start + pagination.limit),
              total |-> Len(sorted)]
        ELSE [complaints |-> f6, total |-> Len(f6)]

GetFilteredComplaints(impl, d, filters, pagination) ==
    IF impl = "storage" THEN GetFilteredComplaintsA(d, filters, pagination)
    ELSE GetFilteredComplaintsB(d, filters, pagination)

\* The complaints the data sets are made of.
Rows ==
    << [id |-> <<"c", "1">>, title |-> <<"A", "b">>, description |-> <<"x">>,
        reporterName |-> <<"J">>, status |-> "New", category |-> "Sanitation",
        priority |-> "High", assignee |-> "Sarah Johnson", createdAt |-> 2],
       [id |-> <<"c", "2">>, title |-> <<"b">>, description |-> <<"B", "a">>,
        reporterName |-> <<"M">>, status |-> "In Review", category |-> "Noise",
        priority |-> "Low", assignee |-> Undefined, createdAt |-> 1],
       [id |-> <<"c", "3">>, title |-> <<"x">>, description |-> <<"x">>,
        reporterName |-> <<"a">>, status |-> "New", category |-> "Sanitation",
        priority |-> "High", assignee |-> "Michael Chen", createdAt |-> 2] >>

\* No data, and every arrangement of up to MaxRows different complaints.
DataSets ==
    { [isNull |-> TRUE, complaints |-> <<>>] } \cup
    UNION { { [isNull |-> FALSE, complaints |-> [i \in 1 .. n |-> Rows[f[i]]]] :
                f \in { g \in [1 .. n -> 1 .. Len(Rows)] :
                          \A i, j \in 1 .. n : g[i] = g[j] => i = j } } :
            n \in 0 .. MaxRows }

\* An optional list property: absent, or one of the lists.
Optional(lists) ==
    { [given |-> FALSE, list |-> <<>>] } \cup { [given |-> TRUE, list |-> l] : l \in lists }

\* ComplaintFilters
FilterObjects ==
    [status : Optional({<<>>, <<"New">>}),
     category : Optional({<<"Sanitation">>}),
     priority : Optional({<<"High">>}),
     assignee : Optional({<<"Sarah Johnson">>}),
     dateRange : {[given |-> FALSE, start |-> 0, end |-> 0],
                  [given |-> TRUE, start |-> 2, end |-> 2]},
     searchQuery : {[given |-> FALSE, text |-> <<>>], [given |-> TRUE, text |-> <<>>],
                    [given |-> TRUE, text |-> <<"a">>], [given |-> TRUE, text |-> <<"B">>]}]

\* PaginationOptions, or none.
Paginations ==
    { [given |-> FALSE, page |-> 1, limit |-> 1, sortBy |-> Undefined,
       sortOrder |-> Undefined] } \cup
    [given : {TRUE}, page : 1 .. MaxPage, limit : 1 .. MaxLimit,
     sortBy : {"createdAt", "priority", "assignee"}, sortOrder : {"asc", "desc"}]

NoResult == [complaints |-> <<>>, total |-> 0]

\* A page is about to call getFilteredComplaints with some data, filters and
\* pagination.
FilterInit ==
    /\ hook \in {"storage", "closure"}
    /\ faulty = FALSE
    /\ clock = 0
    /\ store = NoItem
    /\ mounted = [t \in Tabs |-> FALSE]
    /\ data = [t \in Tabs |-> NullData]
    /\ queue = [t \in Tabs |-> <<>>]
    /\ evt = [t \in Tabs |-> FALSE]
    /\ ops = 0
    /\ last = NoOp
    /\ ideal = <<>>
    /\ attachments = <<>>
    /\ lastCall \in
        { [fn |-> "query", before |-> NoItem,
           given |-> [data |-> d, filters |-> f, pagination |-> p],
           env |-> "ok", now |-> 0, ok |-> FALSE, ret |-> NoResult] :
            d \in DataSets, f \in FilterObjects, p \in Paginations }

GetFilteredComplaintsCall ==
    /\ lastCall.fn = "query"
    /\ lastCall' = [lastCall EXCEPT
            !.fn = "getFilteredComplaints",
            !.ok = TRUE,
            !.ret = GetFilteredComplaints(hook, lastCall.given.data,
                        lastCall.given.filters, lastCall.given.pagination)]
    /\ UNCHANGED <<hook, faulty, clock, store, mounted, data, queue, evt, ops,
                   last, ideal, attachments>>

FilterNext == GetFilteredComplaintsCall

FilterSpec == FilterInit /\ [][FilterNext]_vars

----------------------------------------------------------------------------
(* The tracking page (part_004): what it shows of a complaint's comments   *)

MaxComments == 3       \* comments on a tracked complaint

CommentValues ==
    { Comment("Sarah Johnson", "received", FALSE), Comment("Admin", "note", FALSE),
      Comment("Sarah Johnson", "secret", TRUE), Comment("Admin", "internal", TRUE) }

\* The complaints getComplaintById may hand to the page.
TrackedComplaints ==
    { [c EXCEPT !.comments = cs] :
        c \in { NewComplaintB(0, "New"), NewComplaintB(1, "Resolved") },
        cs \in UNION { [1 .. n -> CommentValues] : n \in 0 .. MaxComments } }

\* Nothing rendered yet.
NoView ==
    [id |-> -1, title |-> Undefined, status |-> Undefined, history |-> <<>>,
     commentsCard |-> FALSE, shown |-> <<>>, noPublicNote |-> FALSE]

\* What the page renders of the complaint: the header fields, the timeline
\* and the "Comments & Updates" card.
TrackView(c) ==
    LET IsPublic(comment) == ~comment.isPrivate
        public == SelectSeq(c.comments, IsPublic)
        card == Len(c.comments) > 0
    IN  [id |-> c.id, title |-> c.title, status |-> c.status, history |-> c.history,
         commentsCard |-> card,
         shown |-> IF card
                   THEN [i \in 1 .. Len(public) |->
                            [by |-> public[i].by, text |-> public[i].text]]
                   ELSE <<>>,
         noPublicNote |-> card /\ Len(public) = 0]

\* The page is about to show a complaint that it has found.
TrackInit ==
    /\ hook \in {"storage", "closure"}
    /\ faulty = FALSE
    /\ clock = 0
    /\ store = NoItem
    /\ mounted = [t \in Tabs |-> FALSE]
    /\ data = [t \in Tabs |-> NullData]
    /\ queue = [t \in Tabs |-> <<>>]
    /\ evt = [t \in Tabs |-> FALSE]
    /\ ops = 0
    /\ last = NoOp
    /\ ideal = <<>>
    /\ attachments = <<>>
    /\ lastCall \in
        { [fn |-> "found", before |-> NoItem, given |-> c, env |-> "ok",
           now |-> 0, ok |-> FALSE, ret |-> NoView] :
            c \in TrackedComplaints }

TrackRender ==
    /\ lastCall.fn = "found"
    /\ lastCall' = [lastCall EXCEPT !.fn = "track", !.ok = TRUE,
                                    !.ret = TrackView(lastCall.given)]
    /\ UNCHANGED <<hook, faulty, clock, store, mounted, data, queue, evt, ops,
                   last, ideal, attachments>>

TrackNext == TrackRender

TrackSpec == TrackInit /\ [][TrackNext]_vars

----------------------------------------------------------------------------
(* The submission form (SubmitComplaint.tsx, part_006): attachments.  The  *)
(* two setAttachments calls pass updater functions, so each handler's      *)
(* update applies to the list as all earlier handlers have left it.        *)

MaxAttachments == 5
MaxFileSize == 5 * 1024 * 1024
MaxBatch == 2          \* files chosen in one file dialog

ImagePrefix == <<"i", "m", "a", "g", "e", "/">>
ApplicationPdf ==
    <<"a", "p", "p", "l", "i", "c", "a", "t", "i", "o", "n", "/", "p", "d", "f">>

\* file.type of the files a user may pick.
FileTypes ==
    { ImagePrefix \o <<"p", "n", "g">>, ApplicationPdf, ApplicationPdf \o <<"x">>,
      <<"t", "e", "x", "t", "/">> \o ImagePrefix }

Files == [type : FileTypes, size : {MaxFileSize, MaxFileSize + 1}]

\* event.target.files
FileLists == UNION { [1 .. n -> Files] : n \in 0 .. MaxBatch }

\* String.prototype.startsWith
StartsWith(text, prefix) ==
    Len(text) >= Len(prefix) /\ SubSeq(text, 1, Len(prefix)) = prefix

\* A filter callback that does not look at the size.
ValidFileOfAnySize(file) ==
    StartsWith(file.type, ImagePrefix) \/ file.type = ApplicationPdf

\* The callback of files.filter in handleFileUpload.
ValidFile(file) ==
    LET isValidType == StartsWith(file.type, ImagePrefix) \/ file.type = ApplicationPdf
        isValidSize == file.size <= MaxFileSize
    IN  IF ~isValidType THEN FALSE
        ELSE IF ~isValidSize THEN FALSE
        ELSE TRUE

HandleFileUpload ==
    \E files \in FileLists :
        LET validFiles == SelectSeq(files, ValidFile)
        IN  /\ attachments' = Slice(attachments \o validFiles, 0, MaxAttachments)
            /\ lastCall' = [fn |-> "handleFileUpload", before |-> attachments,
                            given |-> files, env |-> "ok", now |-> 0, ok |-> TRUE,
                            ret |-> NullData]
            /\ UNCHANGED <<hook, faulty, clock, store, mounted, data, queue, evt,
                           ops, last, ideal>>

\* The index is that of a row of the rendered list.
RemoveAttachment ==
    \E index \in 0 .. (Len(attachments) - 1) :
        LET kept == { i \in 0 .. (Len(attachments) - 1) : i # index }
        IN  /\ attachments' = [k \in 1 .. Cardinality(kept) |->
                                 attachments[IF k - 1 < index THEN k ELSE k + 1]]
            /\ lastCall' = [fn |-> "removeAttachment", before |-> attachments,
                            given |-> index, env |-> "ok", now |-> 0, ok |-> TRUE,
                            ret |-> NullData]
            /\ UNCHANGED <<hook, faulty, clock, store, mounted, data, queue, evt,
                           ops, last, ideal>>

AttachNext == HandleFileUpload \/ RemoveAttachment

AttachInit == Init /\ hook = "closure" /\ faulty = FALSE /\ store = NoItem

AttachSpec == AttachInit /\ [][AttachNext]_vars

----------------------------------------------------------------------------
(* Claims *)

Complaints(st) == IF st.kind = "json" THEN st.val.complaints ELSE <<>>

UniqueIds(cs) == \A i, j \in 1 .. Len(cs) : cs[i].id = cs[j].id => i = j

\* Tab t has rendered everything that was queued.
Settled(t) == mounted[t] /\ queue[t] = <<>> /\ data[t] # NullData

\* No other tab has a hook instance.
Alone(t) == \A u \in Tabs \ {t} : ~mounted[u]

\* Two arrays hold the same complaints (same id and title, position by position).
SameComplaints(cs, ds) ==
    /\ Len(cs) = Len(ds)
    /\ \A i \in 1 .. Len(cs) : cs[i].id = ds[i].id /\ cs[i].title = ds[i].title

InvalidItem(st) ==
    \/ st.kind = "absent"
    \/ st.kind = "unparseable"
    \/ st.val.version = Undefined
    \/ st.val.version # "1.0.0"

FreshSample(d, now) ==
    \E ids \in Suffixes \X Suffixes : d = GenerateSampleData(ids[1], ids[2], now)

(* C1: no two complaints of the complaints array, in any tab's memory or in
   storage, have the same id. *)
ComplaintIdsUnique ==
    /\ UniqueIds(Complaints(store))
    /\ \A t \in Tabs : UniqueIds(data[t].complaints)

(* C2: in a single tab, once everything is rendered, the history of every
   complaint is its earlier history followed by one entry per successful
   updateComplaintStatus call, each with the status just before the call as
   previousStatus and the requested status as newStatus. *)
EveryStatusChangeLogged ==
    \A t \in Tabs :
        (Settled(t) /\ Alone(t) /\ SameComplaints(data[t].complaints, ideal)) =>
            \A i \in 1 .. Len(ideal) : data[t].complaints[i].history = ideal[i].history

(* C3: once createComplaint has returned a complaint, or updateComplaintStatus
   or addComment has returned true, and the tab has rendered, the complaints
   stored under the key equal the complaints of the hook's data. *)
StorageIsSystemOfRecord ==
    (/\ last.op \in {"create", "update", "comment"}
     /\ last.ok
     /\ Settled(last.tab)) =>
        /\ store.kind = "json"
        /\ Complaints(store) = data[last.tab].complaints

(* C4: a page refresh after completed calls yields the complaints, with the
   same status and history, that the hook held before the refresh. *)
DataSurvivesRefresh ==
    (/\ last.op = "refresh"
     /\ last.pre
     /\ Alone(last.tab)
     /\ Settled(last.tab)) =>
        data[last.tab].complaints = last.held

(* C5: once every tab has rendered, storage holds every complaint that
   createComplaint returned and every complaint that was stored before. *)
NoLostCreation ==
    (\A t \in Tabs : queue[t] = <<>>) =>
        \A i \in 1 .. Len(ideal) :
            \E j \in 1 .. Len(Complaints(store)) :
                /\ Complaints(store)[j].id = ideal[i].id
                /\ Complaints(store)[j].title = ideal[i].title

(* C6: in the storage-reading hook, once a tab has handled a storage event
   and rendered, its complaints are the complaints in storage. *)
StorageEventSynchronises ==
    (/\ last.op = "storage"
     /\ Settled(last.tab)) =>
        data[last.tab].complaints = Complaints(store)

(* C7: in the storage-reading hook, once createComplaint has returned a
   complaint and the tabs have rendered, a getComplaintById of its id returns
   that complaint. *)
TrackableAfterSubmission ==
    (/\ last.op = "get"
     /\ last.pre
     /\ \E i \in 1 .. Len(ideal) :
            ideal[i].id = last.id /\ ideal[i].title = UserTitle) =>
        /\ last.found.id = last.id
        /\ last.found.title = UserTitle

(* C8: after handleBulkStatusUpdate(s) on loaded data and the render that
   follows, every selected id that names a complaint has status s in memory
   and in storage, and the reported count is the number of those complaints. *)
BulkUpdateSetsAll ==
    (/\ last.op = "bulk"
     /\ last.pre
     /\ Settled(last.tab)) =>
        LET cs == data[last.tab].complaints
            named == { k \in 1 .. Len(last.sel) : FindIndex(cs, last.sel[k]) # 0 }
        IN  /\ \A k \in named :
                /\ Find(cs, last.sel[k]).status = last.status
                /\ Find(Complaints(store), last.sel[k]).status = last.status
            /\ last.count = Cardinality(named)

(* C9, as stated: whatever the condition of localStorage, an absent,
   unparseable or wrongly versioned key makes loadFromStorage return fresh
   sample data and overwrite the key with it, and a key of version 1.0.0 is
   returned as it is and left unchanged. *)
LoadFallbackAlways ==
    lastCall.fn = "load" =>
        IF InvalidItem(lastCall.before)
        THEN /\ FreshSample(lastCall.ret, lastCall.now)
             /\ store = Stringify(lastCall.ret)
        ELSE /\ lastCall.ret = lastCall.before.val
             /\ store = lastCall.before

(* C9, amended: the same while localStorage is available, except that the
   key keeps its value when the write of the sample data throws; when
   localStorage is unavailable loadFromStorage returns fresh sample data
   whatever the key holds and leaves the key unchanged. *)
LoadFallbackWhenAvailable ==
    lastCall.fn = "load" =>
        IF lastCall.env = "unavailable"
        THEN /\ FreshSample(lastCall.ret, lastCall.now)
             /\ store = lastCall.before
        ELSE IF InvalidItem(lastCall.before)
        THEN /\ FreshSample(lastCall.ret, lastCall.now)
             /\ store = IF lastCall.env = "quota" THEN lastCall.before
                        ELSE Stringify(lastCall.ret)
        ELSE /\ lastCall.ret = lastCall.before.val
             /\ store = lastCall.before

\* loadFromStorage has replaced data of an old version by sample data.
LoadFallbackWitness ==
    /\ lastCall.fn = "load"
    /\ lastCall.env = "ok"
    /\ lastCall.before = Stringify(OldData)
    /\ store = Stringify(lastCall.ret)

(* C10: saveToStorage returns false when localStorage is unavailable or the
   write throws, and then the key holds what it held before; when it returns
   true the key holds the given data with lastModified replaced by the
   current time. *)
SaveReportsFailureWithoutDamage ==
    lastCall.fn = "save" =>
        /\ lastCall.env \in {"unavailable", "quota"} => ~lastCall.ok
        /\ ~lastCall.ok => store = lastCall.before
        /\ lastCall.ok =>
              store = Stringify([lastCall.given EXCEPT !.lastModified = lastCall.now])

\* A write has thrown while the key held other data than the data given.
SaveFailureWitness ==
    /\ lastCall.fn = "save"
    /\ lastCall.env = "quota"
    /\ lastCall.before.kind = "json"
    /\ lastCall.before.val.lastModified # lastCall.given.lastModified

(* C11: importData returns false and leaves the key as it is for a file that
   is not JSON or whose complaints or users property is missing or no array;
   for any other file it hands the data, with version and settings.version
   set to 1.0.0, to saveToStorage and returns its result. *)
ImportValidatesBeforeWriting ==
    lastCall.fn = "import" =>
        LET text == lastCall.given
            rejected == \/ text.kind # "object"
                        \/ text.val.complaintsKind # "array"
                        \/ text.val.usersKind # "array"
            saved == SaveToStorage(lastCall.before,
                        [complaints |-> text.val.complaints,
                         users |-> text.val.users,
                         settings |-> [version |-> "1.0.0",
                                       theme |-> text.val.settings.theme],
                         version |-> "1.0.0",
                         lastModified |-> text.val.lastModified],
                        lastCall.env, lastCall.now)
        IN  IF rejected
            THEN ~lastCall.ok /\ store = lastCall.before
            ELSE lastCall.ok = saved.ok /\ store = saved.store

\* A file with a users property that is no array has been rejected over
\* stored data.
ImportRejectedWitness ==
    /\ lastCall.fn = "import"
    /\ lastCall.env = "ok"
    /\ lastCall.given.kind = "object"
    /\ lastCall.given.val.complaintsKind = "array"
    /\ lastCall.given.val.usersKind = "notArray"
    /\ lastCall.before.kind = "json"
    /\ ~lastCall.ok

(* C12, as stated: when the key holds valid data, importData(exportData())
   returns true and leaves the stored complaints, users and settings as they
   were, and a second export yields the complaints, users and settings of
   the first. *)
RoundTripAlways ==
    (lastCall.fn = "roundtrip" /\ ~InvalidItem(lastCall.before)) =>
        /\ lastCall.ok
        /\ lastCall.after.kind = "json"
        /\ lastCall.after.val.complaints = lastCall.before.val.complaints
        /\ lastCall.after.val.users = lastCall.before.val.users
        /\ lastCall.after.val.settings = lastCall.before.val.settings
        /\ lastCall.ret.val.complaints = lastCall.given.val.complaints
        /\ lastCall.ret.val.users = lastCall.given.val.users
        /\ lastCall.ret.val.settings = lastCall.given.val.settings

(* C12, amended: when the key holds valid data and localStorage is available
   during the export, importData(exportData()) leaves the stored complaints,
   users and settings as they were and returns true exactly when the write
   succeeds; a second export made while localStorage is available yields the
   complaints, users and settings of the first. *)
RoundTripWhenAvailable ==
    (/\ lastCall.fn = "roundtrip"
     /\ ~InvalidItem(lastCall.before)
     /\ lastCall.env[1] # "unavailable") =>
        /\ lastCall.ok <=> lastCall.env[2] = "ok"
        /\ lastCall.after.kind = "json"
        /\ lastCall.after.val.complaints = lastCall.before.val.complaints
        /\ lastCall.after.val.users = lastCall.before.val.users
        /\ lastCall.after.val.settings = lastCall.before.val.settings
        /\ lastCall.env[3] # "unavailable" =>
            /\ lastCall.ret.val.complaints = lastCall.given.val.complaints
            /\ lastCall.ret.val.users = lastCall.given.val.users
            /\ lastCall.ret.val.settings = lastCall.given.val.settings

\* Stored data has been exported and imported again at a later time.
RoundTripWitness ==
    /\ lastCall.fn = "roundtrip"
    /\ lastCall.env = <<"ok", "ok", "ok">>
    /\ lastCall.before.kind = "json"
    /\ lastCall.before.val.version = "1.0.0"
    /\ Len(lastCall.before.val.complaints) = 2
    /\ lastCall.after.val.lastModified # lastCall.before.val.lastModified
    /\ lastCall.ok

(* C13: once resetData has returned true and the tab has rendered, the
   hook's data and the key both hold freshly generated sample data: the two
   sample complaints and none of the complaints that existed before. *)
ResetRestoresDefaults ==
    (/\ last.op = "reset"
     /\ last.ok
     /\ Settled(last.tab)) =>
        /\ \E now \in 0 .. MaxClock : FreshSample(data[last.tab], now)
        /\ store.kind = "json"
        /\ Complaints(store) = data[last.tab].complaints
        /\ \A i \in 1 .. Len(Complaints(store)) : Complaints(store)[i].title # UserTitle

\* getFilteredComplaints has been called and has returned.
Queried == lastCall.fn = "getFilteredComplaints"

\* An absent or empty list excludes nothing; otherwise x must be listed.
PassesList(opt, x) ==
    ~opt.given \/ opt.list = <<>> \/ \E i \in DOMAIN opt.list : opt.list[i] = x

\* The fields in which each hook looks for the search text.
SearchedFields(impl) ==
    IF impl = "storage" THEN {"id", "title", "reporterName"}
    ELSE {"id", "title", "reporterName", "description"}

PassesSearch(search, c, impl) ==
    \/ ~search.given
    \/ search.text = <<>>
    \/ \E fld \in SearchedFields(impl) :
            Includes(ToLowerCase(c[fld]), ToLowerCase(search.text))

\* The four filters of status, category, priority and search text.
PassesListed(c, f, impl) ==
    /\ PassesList(f.status, c.status)
    /\ PassesList(f.category, c.category)
    /\ PassesList(f.priority, c.priority)
    /\ PassesSearch(f.searchQuery, c, impl)

\* What each hook applies: the state-closure hook also filters by assignee
\* and by date range.
PassesApplied(c, f, impl) ==
    /\ PassesListed(c, f, impl)
    /\ impl = "closure" =>
        /\ PassesList(f.assignee, c.assignee)
        /\ f.dateRange.given =>
            (c.createdAt >= f.dateRange.start /\ c.createdAt <= f.dateRange.end)

MatchingListed(d, f, impl) ==
    LET Test(c) == PassesListed(c, f, impl) IN SelectSeq(d.complaints, Test)

Matching(d, f, impl) ==
    LET Test(c) == PassesApplied(c, f, impl) IN SelectSeq(d.complaints, Test)

(* C14, as stated: without pagination getFilteredComplaints returns, in
   stored order, exactly the complaints whose status, category and priority
   are in the supplied lists and that contain the search text, whatever else
   the filter object holds. *)
FiltersConjunctive ==
    (Queried /\ ~lastCall.given.pagination.given) =>
        lastCall.ret.complaints =
            MatchingListed(lastCall.given.data, lastCall.given.filters, hook)

(* C14, amended: without pagination getFilteredComplaints returns, in stored
   order, exactly the complaints that pass every filter the hook applies:
   status, category, priority and search text (in id, title and reporter
   name) in the storage-reading hook, and in the state-closure hook also the
   assignee list and the date range, the search also looking in the
   description. *)
FiltersConjunctivePerHook ==
    (Queried /\ ~lastCall.given.pagination.given) =>
        lastCall.ret.complaints =
            Matching(lastCall.given.data, lastCall.given.filters, hook)

\* Three complaints were filtered by status, assignee and an upper-case search
\* text, and one of them was returned.
FiltersWitness ==
    /\ Queried
    /\ hook = "closure"
    /\ ~lastCall.given.pagination.given
    /\ Len(lastCall.given.data.complaints) = 3
    /\ lastCall.given.filters.status = [given |-> TRUE, list |-> <<"New">>]
    /\ lastCall.given.filters.assignee.given
    /\ lastCall.given.filters.searchQuery.text = <<"B">>
    /\ Len(lastCall.ret.complaints) = 1

\* The matching complaints in the order the sort leaves them in.
SortedMatching(q, impl) ==
    Sort(Matching(q.data, q.filters, impl), q.pagination.sortBy,
         q.pagination.sortOrder)

(* C15: with pagination, total is the number of matching complaints whatever
   the page and limit, and complaints holds positions (page-1)*limit to
   page*limit-1 of the sorted matching list: at most limit complaints, and
   none when the page lies past the end. *)
PaginationIsOffsetSlice ==
    (Queried /\ lastCall.given.pagination.given) =>
        LET q == lastCall.given
            all == SortedMatching(q, hook)
            first == (q.pagination.page - 1) * q.pagination.limit + 1
            end == q.pagination.page * q.pagination.limit
        IN  /\ lastCall.ret.total = Len(Matching(q.data, q.filters, hook))
            /\ Len(lastCall.ret.complaints) <= q.pagination.limit
            /\ first > Len(all) => lastCall.ret.complaints = <<>>
            /\ lastCall.ret.complaints =
                [i \in 1 .. (IF end < Len(all) THEN end - first + 1
                             ELSE IF first > Len(all) THEN 0
                             ELSE Len(all) - first + 1) |-> all[first + i - 1]]

\* The second page of three matching complaints, two to a page, was asked for.
PaginationWitness ==
    /\ Queried
    /\ lastCall.given.pagination.given
    /\ lastCall.given.pagination.page = 2
    /\ lastCall.given.pagination.limit = 2
    /\ lastCall.ret.total = 3
    /\ Len(lastCall.ret.complaints) = 1

RECURSIVE PagesUpTo(_, _, _)
\* The complaints of pages 1 to k, one after the other.
PagesUpTo(q, impl, k) ==
    IF k = 0 THEN <<>>
    ELSE PagesUpTo(q, impl, k - 1) \o
         GetFilteredComplaints(impl, q.data, q.filters,
                               [q.pagination EXCEPT !.page = k]).complaints

\* The position of complaint c in the stored list.
StoredAt(d, c) == CHOOSE i \in DOMAIN d.complaints : d.complaints[i] = c

(* C16: the pages 1 to ceil(total/limit) put together hold every matching
   complaint exactly once, no complaint standing before one whose sortBy
   value is smaller ('asc') or greater ('desc'), and complaints of equal
   value standing in stored order. *)
PagesPartitionSorted ==
    (Queried /\ lastCall.given.pagination.given) =>
        LET q == lastCall.given
            limit == q.pagination.limit
            sortBy == q.pagination.sortBy
            pages == (lastCall.ret.total + limit - 1) \div limit
            all == PagesUpTo(q, hook, pages)
            m == Matching(q.data, q.filters, hook)
        IN  /\ Len(all) = Len(m)
            /\ \A i \in DOMAIN m : \E j \in DOMAIN all : all[j] = m[i]
            /\ \A i, j \in DOMAIN all : i < j =>
                /\ IF q.pagination.sortOrder = "asc"
                   THEN ~JsLess(Key(all[j], sortBy), Key(all[i], sortBy))
                   ELSE ~JsLess(Key(all[i], sortBy), Key(all[j], sortBy))
                /\ Key(all[i], sortBy) = Key(all[j], sortBy) =>
                    StoredAt(q.data, all[i]) < StoredAt(q.data, all[j])

(* C17: for filters that hold only status, category and priority lists and a
   pagination with sortBy set, the two implementations return the same
   complaints in the same order and the same total. *)
HooksAgree ==
    (/\ Queried
     /\ lastCall.given.pagination.given
     /\ lastCall.given.pagination.sortBy # Undefined
     /\ ~lastCall.given.filters.assignee.given
     /\ ~lastCall.given.filters.dateRange.given
     /\ ~lastCall.given.filters.searchQuery.given) =>
        /\ lastCall.ret = GetFilteredComplaintsA(lastCall.given.data,
                lastCall.given.filters, lastCall.given.pagination)
        /\ lastCall.ret = GetFilteredComplaintsB(lastCall.given.data,
                lastCall.given.filters, lastCall.given.pagination)

\* The state-closure hook returned the first of two complaints with status
\* New out of three.
HooksAgreeWitness ==
    /\ Queried
    /\ hook = "closure"
    /\ lastCall.given.pagination.given
    /\ lastCall.given.pagination.limit = 1
    /\ Len(lastCall.given.data.complaints) = 3
    /\ lastCall.given.filters.status = [given |-> TRUE, list |-> <<"New">>]
    /\ ~lastCall.given.filters.assignee.given
    /\ ~lastCall.given.filters.dateRange.given
    /\ ~lastCall.given.filters.searchQuery.given
    /\ lastCall.ret.total = 2
    /\ Len(lastCall.ret.complaints) = 1

\* The call that is being made is an updateComplaintStatus or addComment.
LookupStep == ops' = ops + 1 /\ last'.op \in {"update", "comment"}

\* The complaints in which the call will look for the id: the stored ones in
\* the storage-reading hook, those of the tab's last render in the other.
Consulted(t) == IF hook = "storage" THEN Complaints(store) ELSE data[t].complaints

(* C18, as stated: a call of updateComplaintStatus or addComment with an id
   that names no complaint returns false and changes neither the hook's data
   nor the value under the key. *)
UnknownIdRejected ==
    [][(LookupStep /\ FindIndex(Consulted(last'.tab), last'.id) = 0) =>
            /\ ~last'.ok
            /\ data' = data
            /\ queue' = queue
            /\ store' = store]_vars

(* C18, amended: a call with an id that names no complaint returns false and
   changes neither the hook's data nor the value under the key, where in the
   storage-reading hook the id is looked up in storage and the key must hold
   valid data of the current version with localStorage available. *)
UnknownIdRejectedFromValidStorage ==
    [][(/\ LookupStep
        /\ FindIndex(Consulted(last'.tab), last'.id) = 0
        /\ hook = "storage" =>
            (~InvalidItem(store) /\ IsLocalStorageAvailable(last'.env))) =>
            /\ ~last'.ok
            /\ data' = data
            /\ queue' = queue
            /\ store' = store]_vars

\* A status update has been refused although the tab has submitted a complaint:
\* the id named none of the three complaints in storage.
UnknownIdWitness ==
    /\ last.op = "update"
    /\ ~last.ok
    /\ store.kind = "json"
    /\ Len(Complaints(store)) = 3
    /\ FindIndex(Complaints(store), last.id) = 0
    /\ FindIndex(data[last.tab].complaints, last.id) = 0

\* The two complaints differ at most in their private comments.
SamePublic(c1, c2) ==
    LET IsPublic(comment) == ~comment.isPrivate
    IN  /\ [c1 EXCEPT !.comments = <<>>] = [c2 EXCEPT !.comments = <<>>]
        /\ SelectSeq(c1.comments, IsPublic) = SelectSeq(c2.comments, IsPublic)

(* C19: the view of a tracked complaint is the view of every complaint that
   differs from it only in private comments, and shows the author and text
   of no private comment. *)
PrivateCommentsInvisible ==
    lastCall.fn = "track" =>
        /\ \A c2 \in TrackedComplaints :
            SamePublic(lastCall.given, c2) => TrackView(c2) = lastCall.ret
        /\ \A i \in DOMAIN lastCall.ret.shown :
            \A j \in DOMAIN lastCall.given.comments :
                lastCall.given.comments[j].isPrivate =>
                    lastCall.ret.shown[i].text # lastCall.given.comments[j].text

\* The first n elements of a list, or all of it.
FirstN(list, n) == [i \in 1 .. (IF Len(list) < n THEN Len(list) ELSE n) |-> list[i]]

(* C20: the attachment list never holds more than 5 files, every file in it
   has a type that begins with image/ or is application/pdf and a size of at
   most 5*1024*1024 bytes, and an upload leaves the list as the first 5 of
   the files already attached followed by the accepted new files, in the
   order in which they were chosen. *)
AttachmentLimits ==
    /\ Len(attachments) <= 5
    /\ \A i \in DOMAIN attachments :
        /\ \/ FirstN(attachments[i].type, 6) = <<"i", "m", "a", "g", "e", "/">>
           \/ attachments[i].type = ApplicationPdf
        /\ attachments[i].size <= 5 * 1024 * 1024
    /\ lastCall.fn = "handleFileUpload" =>
        LET IsAccepted(file) ==
                /\ \/ FirstN(file.type, 6) = <<"i", "m", "a", "g", "e", "/">>
                   \/ file.type = ApplicationPdf
                /\ file.size <= 5 * 1024 * 1024
        IN  attachments =
                FirstN(lastCall.before \o SelectSeq(lastCall.given, IsAccepted), 5)

\* Four files were attached, two acceptable files were chosen, and only the
\* first of them was added.
AttachmentLimitWitness ==
    /\ lastCall.fn = "handleFileUpload"
    /\ Len(lastCall.before) = 4
    /\ Len(lastCall.given) = 2
    /\ lastCall.given[1] # lastCall.given[2]
    /\ Len(attachments) = 5
    /\ attachments[5] = lastCall.given[1]
    /\ lastCall.given[2].size <= 5 * 1024 * 1024
    /\ lastCall.given[2].type = ApplicationPdf

====
